---- MODULE Spec2Model ----
(***************************************************************************)
(* State-machine model of the Upload component                             *)
(* (src/components/Upload.tsx): component state, the two timer refs, the   *)
(* browser's timer table, the FileReader and the host's onComplete         *)
(* callback, driven by UI events, timer callbacks, the reader's load event *)
(* and unmount, all interleaved on one event loop.                         *)
(***************************************************************************)
EXTENDS Integers, Sequences, FiniteSets, TLC

\* ---------------------------------------------------------------- bounds
MaxStep == 25        \* PROGRESS_STEP ranges over 1..MaxStep
SizeSlack == 1       \* offered sizes lie within SizeSlack bytes of the ceiling
MaxOffers == 2       \* files offered (select or drop) in one run
MaxTimers == 4       \* timer ids the browser hands out in one run
MaxLeakTicks == 3    \* callbacks observed of an interval that outlives the component
MaxTicks == 101      \* callbacks of the interval of a mounted component (100 steps of 1, then the completing tick)

\* ------------------------------------------------------------- constants
\* useState<string | null>(null): the absent error message
NULL == "null"

\* useState<File | null>(null): the absent file
NoFile == [type |-> "", size |-> 0, content |-> <<>>]

\* useRef<number | null>(null): the absent timer id (browser ids start at 1)
NoTimer == 0

\* ../lib/constants is imported at Upload.tsx:4-10
MAX_UPLOAD_SIZE_BYTES == 52428800

ALLOWED_IMAGE_TYPES == {"image/jpeg", "image/png"}

\* Upload.tsx:55 and Upload.tsx:60
TYPE_ERROR == "Only JPG and PNG images are allowed."

SIZE_ERROR == "File size exceeds the maximum allowed limit."

\* ---------------------------------------------------------------- inputs
MimeTypes == ALLOWED_IMAGE_TYPES \cup {"application/pdf"}

Sizes == {MAX_UPLOAD_SIZE_BYTES - d : d \in 0..SizeSlack} \cup
         {MAX_UPLOAD_SIZE_BYTES + d : d \in 0..SizeSlack}

\* leading bytes standing for a file's content ("M" and "Man")
Contents == {<<77>>, <<77, 97, 110>>}

Files == [type : MimeTypes, size : Sizes, content : Contents]

\* -------------------------------------------------- FileReader.readAsDataURL
PAD == 64

\* the 4 base64 sextets of one group of 1..3 bytes, PAD for '='
Base64Group(g) ==
    LET b1 == g[1]
        b2 == IF Len(g) >= 2 THEN g[2] ELSE 0
        b3 == IF Len(g) >= 3 THEN g[3] ELSE 0
    IN << b1 \div 4,
          (b1 % 4) * 16 + (b2 \div 16),
          IF Len(g) >= 2 THEN (b2 % 16) * 4 + (b3 \div 64) ELSE PAD,
          IF Len(g) >= 3 THEN b3 % 64 ELSE PAD >>

RECURSIVE Base64(_)
Base64(bytes) ==
    IF Len(bytes) = 0 THEN <<>>
    ELSE IF Len(bytes) <= 3 THEN Base64Group(bytes)
    ELSE Base64Group(SubSeq(bytes, 1, 3)) \o Base64(SubSeq(bytes, 4, Len(bytes)))

\* reader.result of readAsDataURL(f): "data:<type>;base64,<payload>"
readAsDataURL(f) == [mime |-> f.type, base64 |-> Base64(f.content)]

\* ----------------------------------------------------------------- Button
\* an optional prop or array element: {} when omitted (undefined), {x} when x is given
Optional(S) == {{}} \cup {{x} : x \in S}

Given(opt) == CHOOSE x \in opt : TRUE

\* destructuring default: applies when the prop is undefined
Default(opt, d) == IF opt = {} THEN d ELSE Given(opt)

ButtonVariant == {"primary", "secondary", "danger"}

ButtonSize == {"sm", "md", "lg"}

CallerClassNames == {"", "mt-4"}

ButtonProps == [variant : Optional(ButtonVariant), size : Optional(ButtonSize),
                fullWidth : Optional(BOOLEAN), className : Optional(CallerClassNames)]

NoProps == [variant |-> {}, size |-> {}, fullWidth |-> {}, className |-> {}]

\* Boolean(x) of an array element: undefined and "" are falsy
Truthy_all(e) == TRUE

Truthy(e) == e # {} /\ e # {""}

\* Array.prototype.join renders an undefined element as ""
ElementToString(e) == IF e = {} THEN "" ELSE Given(e)

RECURSIVE Join(_, _)
Join(arr, sep) ==
    IF Len(arr) = 0 THEN ""
    ELSE IF Len(arr) = 1 THEN ElementToString(arr[1])
    ELSE ElementToString(arr[1]) \o sep \o Join(Tail(arr), sep)

combinedClassName(props) ==
    LET variant == Default(props.variant, "primary")
        size == Default(props.size, "md")
        fullWidth == Default(props.fullWidth, FALSE)
    IN Join(SelectSeq(<< {"btn"},
                         {"btn--" \o variant},
                         {"btn--" \o size},
                         IF fullWidth THEN {"btn--full-width"} ELSE {""},
                         props.className >>, Truthy), " ")

\* ----------------------------------------------------------------- state
VARIABLES
    PROGRESS_STEP,        \* configured step size (imported constant)
    isSignedIn,           \* useOutletContext flag
    mounted,              \* component instance is mounted
    file,                 \* useState: File | null
    progress,             \* useState: number
    isDragging,           \* useState: boolean
    error,                \* useState: string | null
    progressIntervalRef,  \* useRef: interval id | null
    redirectTimeoutRef,   \* useRef: timeout id | null
    reader,               \* the FileReader: [state, file]
    intervals,            \* browser: running intervals, each with its closure's base64
    timeouts,             \* browser: pending timeouts, each with its closure's base64
    nextTimerId,          \* browser: next timer id
    onCompleteCalls,      \* host: arguments onComplete was invoked with
    ticks,                \* interval callbacks run so far
    offers,               \* files offered so far
    lastOffer,            \* the last offer: [file, via, auth, dragging, error]
    teardownPhase,        \* lifecycle phase the component was in when it unmounted
    buttonProps,          \* Button: the props of the render under test
    buttonClassName       \* Button: className of the rendered <button>, {} before the render

vars == << PROGRESS_STEP, isSignedIn, mounted, file, progress, isDragging, error,
           progressIntervalRef, redirectTimeoutRef, reader, intervals, timeouts,
           nextTimerId, onCompleteCalls, ticks, offers, lastOffer,
           teardownPhase, buttonProps, buttonClassName >>

\* the component's React state and refs
uploadState == << file, progress, isDragging, error,
                  progressIntervalRef, redirectTimeoutRef >>

NoReader == [state |-> "none", file |-> NoFile]

NoOffer == [file |-> NoFile, via |-> "none", auth |-> FALSE,
            dragging |-> FALSE, error |-> NULL]

UploadInit ==
    /\ PROGRESS_STEP \in 1..MaxStep
    /\ isSignedIn \in BOOLEAN
    /\ mounted = TRUE
    /\ file = NoFile
    /\ progress = 0
    /\ isDragging = FALSE
    /\ error = NULL
    /\ progressIntervalRef = NoTimer
    /\ redirectTimeoutRef = NoTimer
    /\ reader = NoReader
    /\ intervals = {}
    /\ timeouts = {}
    /\ nextTimerId = 1
    /\ onCompleteCalls = <<>>
    /\ ticks = 0
    /\ offers = 0
    /\ lastOffer = NoOffer
    /\ teardownPhase = "mounted"

Init ==
    /\ UploadInit
    /\ buttonProps = NoProps
    /\ buttonClassName = {}

\* ----------------------------------------------------------- clearTimers
IntervalsAfterClear_leak == intervals

IntervalsAfterClear ==
    IF progressIntervalRef # NoTimer
    THEN {t \in intervals : t.id # progressIntervalRef}
    ELSE intervals

TimeoutsAfterClear_leak == timeouts

TimeoutsAfterClear ==
    IF redirectTimeoutRef # NoTimer
    THEN {t \in timeouts : t.id # redirectTimeoutRef}
    ELSE timeouts

\* ----------------------------------------------------------- processFile
Authorized_always == TRUE

Authorized == isSignedIn

IsAllowedType_pdf(f) == f.type \in ALLOWED_IMAGE_TYPES \cup {"application/pdf"}

IsAllowedType(f) == f.type \in ALLOWED_IMAGE_TYPES

ExceedsMaxSize_ge(f) == f.size >= MAX_UPLOAD_SIZE_BYTES

ExceedsMaxSize(f) == f.size > MAX_UPLOAD_SIZE_BYTES

AcceptedError_kept == error

\* setError(null) on acceptance
AcceptedError == NULL

processFile(f) ==
    IF ~Authorized THEN
        UNCHANGED << file, progress, error, progressIntervalRef, redirectTimeoutRef,
                     reader, intervals, timeouts >>
    ELSE IF ~IsAllowedType(f) THEN
        /\ error' = TYPE_ERROR
        /\ UNCHANGED << file, progress, progressIntervalRef, redirectTimeoutRef,
                        reader, intervals, timeouts >>
    ELSE IF ExceedsMaxSize(f) THEN
        /\ error' = SIZE_ERROR
        /\ UNCHANGED << file, progress, progressIntervalRef, redirectTimeoutRef,
                        reader, intervals, timeouts >>
    ELSE
        /\ error' = AcceptedError
        /\ intervals' = IntervalsAfterClear
        /\ timeouts' = TimeoutsAfterClear
        /\ progressIntervalRef' = NoTimer
        /\ redirectTimeoutRef' = NoTimer
        /\ file' = f
        /\ progress' = 0
        /\ reader' = [state |-> "loading", file |-> f]

\* the dropzone, and with it every UI handler, is rendered only while no file is stored
DropzoneRendered_always == mounted

DropzoneRendered == mounted /\ file = NoFile

RecordOffer(f, via) ==
    /\ offers < MaxOffers
    /\ offers' = offers + 1
    /\ lastOffer' = [file |-> f, via |-> via, auth |-> isSignedIn,
                      dragging |-> isDragging, error |-> error]

handleChange ==
    /\ DropzoneRendered
    /\ \E f \in Files :
        /\ RecordOffer(f, "select")
        /\ processFile(f)
    /\ UNCHANGED << buttonProps, buttonClassName, PROGRESS_STEP, isSignedIn, mounted, isDragging, nextTimerId,
                    onCompleteCalls, ticks, teardownPhase >>

handleDrop ==
    /\ DropzoneRendered
    /\ isDragging' = FALSE
    /\ \/ \E f \in Files :
            /\ RecordOffer(f, "drop")
            /\ processFile(f)
       \/ /\ isDragging
          /\ UNCHANGED << file, progress, error, progressIntervalRef, redirectTimeoutRef,
                          reader, intervals, timeouts, offers, lastOffer >>
    /\ UNCHANGED << buttonProps, buttonClassName, PROGRESS_STEP, isSignedIn, mounted, nextTimerId,
                    onCompleteCalls, ticks, teardownPhase >>

DragOverFlag_always == TRUE

\* if (isSignedIn) setIsDragging(true)
DragOverFlag == IF isSignedIn THEN TRUE ELSE isDragging

onDragOver ==
    /\ DropzoneRendered
    /\ isDragging' = DragOverFlag
    /\ UNCHANGED << buttonProps, buttonClassName, PROGRESS_STEP, isSignedIn, mounted, file, progress, error,
                    progressIntervalRef, redirectTimeoutRef, reader, intervals, timeouts,
                    nextTimerId, onCompleteCalls, ticks, offers, lastOffer, teardownPhase >>

onDragLeave ==
    /\ DropzoneRendered
    /\ isDragging' = FALSE
    /\ UNCHANGED << buttonProps, buttonClassName, PROGRESS_STEP, isSignedIn, mounted, file, progress, error,
                    progressIntervalRef, redirectTimeoutRef, reader, intervals, timeouts,
                    nextTimerId, onCompleteCalls, ticks, offers, lastOffer, teardownPhase >>

\* ------------------------------------------------------------ FileReader
readerOnload ==
    /\ reader.state = "loading"
    /\ nextTimerId <= MaxTimers
    /\ reader' = [reader EXCEPT !.state = "loaded"]
    /\ intervals' = intervals \cup
                    {[id |-> nextTimerId, base64 |-> readAsDataURL(reader.file)]}
    /\ progressIntervalRef' = nextTimerId
    /\ nextTimerId' = nextTimerId + 1
    /\ UNCHANGED << buttonProps, buttonClassName, PROGRESS_STEP, isSignedIn, mounted, file, progress, isDragging, error,
                    redirectTimeoutRef, timeouts, onCompleteCalls, ticks, offers,
                    lastOffer, teardownPhase >>

\* as if the interval were started from onloadend, which also follows a failed read
readerError_onloadend ==
    /\ reader.state = "loading"
    /\ nextTimerId <= MaxTimers
    /\ reader' = [reader EXCEPT !.state = "failed"]
    /\ intervals' = intervals \cup
                    {[id |-> nextTimerId, base64 |-> readAsDataURL(reader.file)]}
    /\ progressIntervalRef' = nextTimerId
    /\ nextTimerId' = nextTimerId + 1
    /\ UNCHANGED << buttonProps, buttonClassName, PROGRESS_STEP, isSignedIn,
                    mounted, file, progress, isDragging, error, redirectTimeoutRef,
                    timeouts, onCompleteCalls, ticks, offers, lastOffer, teardownPhase >>

\* the read fails: no onerror handler is installed, nothing runs
readerError ==
    /\ reader.state = "loading"
    /\ reader' = [reader EXCEPT !.state = "failed"]
    /\ UNCHANGED << buttonProps, buttonClassName, PROGRESS_STEP, isSignedIn, mounted, file, progress, isDragging, error,
                    progressIntervalRef, redirectTimeoutRef, intervals, timeouts,
                    nextTimerId, onCompleteCalls, ticks, offers, lastOffer, teardownPhase >>

\* ------------------------------------------------------ interval callback
TickCompletes_gt(prev) == prev > 100

TickCompletes(prev) == prev >= 100

NextProgress_stall(prev) == IF TickCompletes(prev) THEN 100 ELSE prev

NextProgress(prev) == IF TickCompletes(prev) THEN 100 ELSE prev + PROGRESS_STEP

intervalTick ==
    \E t \in intervals :
        /\ ticks' = ticks + 1
        /\ IF mounted THEN
              /\ ticks < MaxTicks
              /\ progress' = NextProgress(progress)
              /\ IF TickCompletes(progress) THEN
                    /\ nextTimerId <= MaxTimers
                    /\ intervals' = IntervalsAfterClear
                    /\ progressIntervalRef' = NoTimer
                    /\ timeouts' = TimeoutsAfterClear \cup
                                   {[id |-> nextTimerId, base64 |-> t.base64]}
                    /\ redirectTimeoutRef' = nextTimerId
                    /\ nextTimerId' = nextTimerId + 1
                 ELSE
                    UNCHANGED << intervals, progressIntervalRef, timeouts,
                                 redirectTimeoutRef, nextTimerId >>
           ELSE
              \* setProgress on an unmounted component is dropped by React
              /\ ticks < MaxLeakTicks
              /\ UNCHANGED << progress, intervals, progressIntervalRef, timeouts,
                              redirectTimeoutRef, nextTimerId >>
        /\ UNCHANGED << buttonProps, buttonClassName, PROGRESS_STEP, isSignedIn, mounted, file, isDragging, error,
                        reader, onCompleteCalls, offers, lastOffer, teardownPhase >>

\* ------------------------------------------------------- redirect timeout
redirectTimeout_lost ==
    \E t \in timeouts :
        /\ timeouts' = timeouts \ {t}
        /\ UNCHANGED << buttonProps, buttonClassName, PROGRESS_STEP, isSignedIn, mounted, file, progress,
                        isDragging, error, progressIntervalRef, redirectTimeoutRef, reader,
                        intervals, nextTimerId, onCompleteCalls, ticks, offers, lastOffer,
                        teardownPhase >>

redirectTimeout ==
    \E t \in timeouts :
        /\ timeouts' = timeouts \ {t}
        /\ onCompleteCalls' = Append(onCompleteCalls, t.base64)
        /\ UNCHANGED << buttonProps, buttonClassName, PROGRESS_STEP, isSignedIn, mounted, file, progress, isDragging,
                        error, progressIntervalRef, redirectTimeoutRef, reader, intervals,
                        nextTimerId, ticks, offers, lastOffer, teardownPhase >>

\* ----------------------------------------------------------------- render
StatusIcon == IF progress = 100 THEN "check" ELSE "image"

StatusText == IF progress < 100 THEN "Analyzing Floor Plan..." ELSE "Redirecting..."

\* ---------------------------------------------------------------- unmount
Phase ==
    IF file = NoFile THEN "empty"
    ELSE IF reader.state = "loading" THEN "reading"
    ELSE IF reader.state = "failed" THEN "failed"
    ELSE IF intervals # {} THEN "ticking"
    ELSE IF timeouts # {} THEN "redirecting"
    ELSE "complete"

unmount ==
    /\ mounted
    /\ mounted' = FALSE
    /\ teardownPhase' = Phase
    /\ intervals' = IntervalsAfterClear
    /\ timeouts' = TimeoutsAfterClear
    /\ progressIntervalRef' = NoTimer
    /\ redirectTimeoutRef' = NoTimer
    /\ UNCHANGED << buttonProps, buttonClassName, PROGRESS_STEP, isSignedIn, file, progress, isDragging, error, reader,
                    nextTimerId, onCompleteCalls, ticks, offers, lastOffer >>

\* ------------------------------------------------------------ environment
authChange ==
    /\ mounted
    /\ isSignedIn' = ~isSignedIn
    /\ UNCHANGED << buttonProps, buttonClassName, PROGRESS_STEP, mounted, file, progress, isDragging, error,
                    progressIntervalRef, redirectTimeoutRef, reader, intervals, timeouts,
                    nextTimerId, onCompleteCalls, ticks, offers, lastOffer, teardownPhase >>

Next ==
    \/ handleChange
    \/ handleDrop
    \/ onDragOver
    \/ onDragLeave
    \/ readerOnload
    \/ readerError
    \/ intervalTick
    \/ redirectTimeout
    \/ unmount
    \/ authChange

Spec == Init /\ [][Next]_vars

\* one render of Button for each combination of props
ButtonInit ==
    /\ UploadInit
    /\ PROGRESS_STEP = 1
    /\ ~isSignedIn
    /\ buttonProps \in ButtonProps
    /\ buttonClassName = {}

Button ==
    /\ buttonClassName = {}
    /\ buttonClassName' = {combinedClassName(buttonProps)}
    /\ UNCHANGED << buttonProps, PROGRESS_STEP, isSignedIn, mounted, file,
                    progress, isDragging, error, progressIntervalRef, redirectTimeoutRef,
                    reader, intervals, timeouts, nextTimerId, onCompleteCalls, ticks,
                    offers, lastOffer, teardownPhase >>

ButtonNext == Button

ButtonSpec == ButtonInit /\ [][ButtonNext]_vars

\* timers fire when due
FairSpec == Spec /\ WF_vars(intervalTick) /\ WF_vars(redirectTimeout)

TypeOK ==
    /\ PROGRESS_STEP \in 1..MaxStep
    /\ isSignedIn \in BOOLEAN
    /\ mounted \in BOOLEAN
    /\ file \in Files \cup {NoFile}
    /\ progress \in Nat
    /\ isDragging \in BOOLEAN
    /\ error \in {NULL, TYPE_ERROR, SIZE_ERROR}
    /\ reader.state \in {"none", "loading", "loaded", "failed"}
    /\ ticks \in Nat
    /\ offers \in 0..MaxOffers

\* the tick cap never holds back the interval of a mounted component
TickCapSlack == (mounted /\ intervals # {}) => ticks < MaxTicks

\* ================================================================ claims
CeilDiv(a, b) == (a + b - 1) \div b

\* what processFile may touch besides the error message
acceptanceState == << file, progress, progressIntervalRef, redirectTimeoutRef,
                      reader, intervals, timeouts, nextTimerId >>

\* C1: onComplete is invoked at most once per accepted file, and every
\* invocation carries the data URL of the accepted (stored) file, never the
\* content of another offered file.
C1_OnCompleteOnceWithAcceptedContent ==
    /\ Len(onCompleteCalls) <= 1
    /\ \A i \in 1..Len(onCompleteCalls) :
          /\ file # NoFile
          /\ onCompleteCalls[i].mime = file.type
          /\ onCompleteCalls[i].base64 = Base64(file.content)

\* C1 witness: onComplete has fired after an earlier offer of a file with
\* different content had been turned down.
C1_Witness ==
    /\ Len(onCompleteCalls) = 1
    /\ offers >= 2
    /\ error = NULL
    /\ file.content = <<77, 97, 110>>
    /\ onCompleteCalls[1].base64 = <<19, 22, 5, 46>>

\* C2: (under fair timers) once the read of the accepted file has completed
\* on a mounted component, either the component is unmounted or progress
\* reaches 100 and onComplete has fired exactly once; onComplete never fires
\* twice, and it fires only after the redirect timeout was scheduled and
\* has elapsed.
C2_EventuallyCompletesOnce ==
    /\ [](Len(onCompleteCalls) <= 1)
    /\ []((mounted /\ Len(onCompleteCalls) = 1) =>
            (redirectTimeoutRef # NoTimer /\ timeouts = {}))
    /\ (mounted /\ reader.state = "loaded") ~>
            (~mounted \/ (progress = 100 /\ Len(onCompleteCalls) = 1))

\* C2 witness: a mounted component whose progress is 100 and whose
\* onComplete has fired once.
C2_Witness ==
    /\ mounted
    /\ reader.state = "loaded"
    /\ progress = 100
    /\ Len(onCompleteCalls) = 1
    /\ timeouts = {}

\* C3: after the read of an accepted file completed (on a mounted
\* component), progress is exactly 100 once ceiling(100 / PROGRESS_STEP)
\* ticks have run, for every step size.
C3_ExactlyHundredAfterCeilTicks ==
    (reader.state = "loaded" /\ teardownPhase # "reading"
        /\ ticks = CeilDiv(100, PROGRESS_STEP)) => progress = 100

\* C4: progress is an integer in 0..100 in every reachable state.
C4_ProgressInRange == progress \in 0..100

\* C5: progress never decreases in any step, and every tick that finds
\* progress below 100 raises it by exactly PROGRESS_STEP.
C5_ProgressMonotone ==
    [][ /\ progress' >= progress
        /\ (mounted /\ ticks' = ticks + 1 /\ progress < 100)
              => progress' = progress + PROGRESS_STEP ]_vars

\* C6: once the component was unmounted while the repeating timer was
\* running, no timer is pending, no tick fires, no redirect timeout is
\* scheduled, onComplete has not fired and never fires, and no piece of
\* Upload state changes again.
C6_UnmountBetweenTicksFreezes ==
    [][ teardownPhase = "ticking" =>
            /\ intervals = {} /\ timeouts = {} /\ onCompleteCalls = <<>>
            /\ UNCHANGED << uploadState, reader, intervals, timeouts, nextTimerId,
                            ticks, onCompleteCalls >> ]_vars

\* C6 witness: unmounted between two ticks, part-way through the ramp.
C6_Witness ==
    /\ teardownPhase = "ticking"
    /\ ticks >= 2
    /\ progress > 0 /\ progress < 100

\* C7: after teardown, at whatever point of the lifecycle, no timer is
\* pending or started, onComplete is not invoked and no state is mutated.
C7_TeardownStopsEverything ==
    [][ ~mounted =>
            /\ intervals' = {} /\ timeouts' = {}
            /\ UNCHANGED << uploadState, onCompleteCalls >> ]_vars

\* C8: a file of a type outside the allow-list offered by an authorized
\* user, whatever its size, sets the type-error message and nothing else:
\* no file is stored, progress is unchanged, no read starts, no timer is
\* created.
C8_TypeRejected ==
    [][ (offers' = offers + 1 /\ isSignedIn
            /\ lastOffer'.file.type \notin ALLOWED_IMAGE_TYPES) =>
            /\ error' = TYPE_ERROR
            /\ file' = NoFile
            /\ reader'.state # "loading"
            /\ UNCHANGED acceptanceState ]_vars

\* C8 witness: an oversized file of a disallowed type got the type error.
C8_Witness ==
    /\ lastOffer.auth
    /\ lastOffer.file.type = "application/pdf"
    /\ lastOffer.file.size > MAX_UPLOAD_SIZE_BYTES
    /\ error = TYPE_ERROR
    /\ file = NoFile

\* C9: a file of allowed type offered by an authorized user is rejected
\* with the size-error message (and nothing else changes) exactly when its
\* size is strictly greater than MAX_UPLOAD_SIZE_BYTES; otherwise, the
\* exact ceiling included, it is accepted.
C9_SizeRejectedIffAboveCeiling ==
    [][ (offers' = offers + 1 /\ isSignedIn
            /\ lastOffer'.file.type \in ALLOWED_IMAGE_TYPES) =>
            IF lastOffer'.file.size > MAX_UPLOAD_SIZE_BYTES
            THEN /\ error' = SIZE_ERROR
                 /\ file' = NoFile
                 /\ UNCHANGED acceptanceState
            ELSE /\ error' = NULL
                 /\ file' = lastOffer'.file
                 /\ progress' = 0
                 /\ reader' = [state |-> "loading", file |-> lastOffer'.file] ]_vars

\* C9 witness: a file of exactly the ceiling size was accepted and stored,
\* after an earlier offer had been turned down.
C9_Witness ==
    /\ file # NoFile
    /\ file.size = MAX_UPLOAD_SIZE_BYTES
    /\ offers >= 2
    /\ lastOffer.file = file

\* C10: a file offered by selection or by drop while isSignedIn is false
\* leaves the stored file, progress, the error message, the reader and
\* both timers as they were, whatever isSignedIn was earlier.
C10_UnauthorizedRejectedSilently ==
    [][ (offers' = offers + 1 /\ ~isSignedIn) =>
            /\ error' = error
            /\ UNCHANGED acceptanceState ]_vars

\* C10 witness: a drop made while signed out, after an authorized offer
\* had left an error message, which is still displayed.
C10_Witness ==
    /\ offers >= 2
    /\ ~lastOffer.auth
    /\ lastOffer.via = "drop"
    /\ lastOffer.file.type \in ALLOWED_IMAGE_TYPES
    /\ lastOffer.file.size <= MAX_UPLOAD_SIZE_BYTES
    /\ error = SIZE_ERROR
    /\ file = NoFile

\* C11: a dragover received while isSignedIn is false never sets the
\* drag-active flag, a drop always clears it whether or not the user is
\* authorized, and in a run where isSignedIn is false throughout the flag is
\* false in every state.
C11_DragFlagNeedsAuthorization ==
    /\ [][ (~isSignedIn /\ ~isDragging) => ~isDragging' ]_vars
    /\ [][ (offers' = offers + 1 /\ lastOffer'.via = "drop") => ~isDragging' ]_vars
    /\ ([]~isSignedIn) => [](~isDragging)

\* C11 witness: a drop made while signed out found the flag set (by a
\* dragover received before the sign-out) and cleared it.
C11_Witness ==
    /\ lastOffer.via = "drop"
    /\ ~lastOffer.auth
    /\ lastOffer.dragging
    /\ ~isDragging
    /\ ~isSignedIn

\* C12: once a file is stored it is never cleared or replaced, and no second
\* read is started: at most one file is accepted per mount.
C12_NoSecondAcceptance ==
    [][ file # NoFile =>
            /\ file' = file
            /\ reader'.file = file
            /\ (reader'.state = "loading" => reader.state = "loading")
            /\ offers' = offers ]_vars

\* C12 witness: the stored file went through the whole ramp and onComplete
\* fired, with the component still mounted.
C12_Witness ==
    /\ mounted
    /\ file # NoFile
    /\ reader.file = file
    /\ Len(onCompleteCalls) = 1
    /\ offers = 1

\* C13: Button's class string is exactly the tokens btn, btn--<variant>,
\* btn--<size>, btn--full-width (only when fullWidth) and the caller's class
\* (only when given and non-empty), in that order, joined by single spaces
\* with no leading, trailing or doubled separator; omitted props default to
\* primary, md and not full-width.
C13_ExpectedClassName ==
    LET v == IF buttonProps.variant = {} THEN "primary" ELSE Given(buttonProps.variant)
        z == IF buttonProps.size = {} THEN "md" ELSE Given(buttonProps.size)
        w == IF buttonProps.fullWidth = {TRUE} THEN " btn--full-width" ELSE ""
        c == IF buttonProps.className \in {{}, {""}} THEN ""
             ELSE " " \o Given(buttonProps.className)
    IN "btn btn--" \o v \o " btn--" \o z \o w \o c

C13_ButtonClassString ==
    buttonClassName # {} =>
        /\ buttonClassName = {C13_ExpectedClassName}
        /\ buttonProps = NoProps => buttonClassName = {"btn btn--primary btn--md"}
        /\ buttonProps = [variant |-> {"danger"}, size |-> {"lg"}, fullWidth |-> {TRUE},
                          className |-> {"mt-4"}]
              => buttonClassName = {"btn btn--danger btn--lg btn--full-width mt-4"}

\* C13 witness: a Button rendered with an explicit variant and size, not
\* full-width, and an empty caller class: both optional tokens are filtered.
C13_Witness ==
    /\ buttonProps = [variant |-> {"secondary"}, size |-> {"sm"}, fullWidth |-> {FALSE},
                      className |-> {""}]
    /\ buttonClassName = {"btn btn--secondary btn--sm"}

\* C14: the repeating timer is started only by the completion of the
\* accepted file's read: while the read is pending (or after it failed) no
\* timer is pending, both refs are null, progress is 0 and no tick has run;
\* a tick runs only in a state where the read has completed.
C14_TimerStartsAtReadCompletion ==
    /\ [](reader.state # "loaded" =>
            /\ intervals = {} /\ timeouts = {}
            /\ progressIntervalRef = NoTimer /\ redirectTimeoutRef = NoTimer
            /\ progress = 0 /\ ticks = 0)
    /\ [][ ticks' # ticks => reader.state = "loaded" ]_vars

\* C14 witness: a file is stored and its read is still pending.
C14_Witness ==
    /\ mounted
    /\ file # NoFile
    /\ reader = [state |-> "loading", file |-> file]
    /\ intervals = {}

\* the ramp is over: the read completed and the interval is gone, other
\* than by an unmount during the ramp
RampOver == reader.state = "loaded" /\ intervals = {} /\ teardownPhase # "ticking"

\* C15: a tick that observes progress >= 100 stops the repeating timer,
\* schedules exactly one redirect timeout and sets progress to 100; from then
\* on progress stays 100 and no tick occurs; onComplete is invoked only in a
\* state where progress is 100 and the repeating timer is not running.
C15_CompletingTick ==
    /\ [][ (mounted /\ ticks' # ticks /\ progress >= 100) =>
              /\ intervals' = {}
              /\ progressIntervalRef' = NoTimer
              /\ Cardinality(timeouts') = 1
              /\ \A t \in timeouts' : t.id = redirectTimeoutRef' /\ t \notin timeouts
              /\ progress' = 100 ]_vars
    /\ [][ RampOver => (progress = 100 /\ progress' = 100 /\ ticks' = ticks
                          /\ intervals' = {}) ]_vars
    /\ [][ onCompleteCalls' # onCompleteCalls =>
              (progress = 100 /\ intervals = {} /\ RampOver) ]_vars

\* C15 witness: the completing tick has run after an overshoot-free ramp and
\* the redirect timeout is pending.
C15_Witness ==
    /\ mounted
    /\ RampOver
    /\ progress = 100
    /\ Cardinality(timeouts) = 1
    /\ onCompleteCalls = <<>>
    /\ ticks = CeilDiv(100, PROGRESS_STEP) + 1

\* C16: a valid file offered by an authorized user is accepted whatever
\* error message earlier rejections left, its acceptance clears the message,
\* and so a stored file implies that no error message is set.
C16_RejectionNotFatal ==
    /\ [](file # NoFile => error = NULL)
    /\ [][ (offers' = offers + 1 /\ isSignedIn /\ error # NULL
              /\ lastOffer'.file.type \in ALLOWED_IMAGE_TYPES
              /\ lastOffer'.file.size <= MAX_UPLOAD_SIZE_BYTES) =>
              (file' = lastOffer'.file /\ error' = NULL) ]_vars

\* C16 witness: a file was accepted while an error message from an earlier
\* rejection was displayed.
C16_Witness ==
    /\ file # NoFile
    /\ lastOffer.file = file
    /\ lastOffer.error = TYPE_ERROR
    /\ error = NULL
    /\ reader.state = "loaded"

\* C17 (as claimed): at most one of the two timers is pending, each timer ref
\* is non-null only while its timer is pending, and every timer is tracked
\* by its ref.
C17_RefsTrackPendingTimers ==
    /\ ~(intervals # {} /\ timeouts # {})
    /\ progressIntervalRef # NoTimer => \E t \in intervals : t.id = progressIntervalRef
    /\ redirectTimeoutRef # NoTimer => \E t \in timeouts : t.id = redirectTimeoutRef
    /\ \A t \in intervals : t.id = progressIntervalRef
    /\ \A t \in timeouts : t.id = redirectTimeoutRef

\* C17 (amended): at most one of the two timers is pending,
\* progressIntervalRef is non-null only while its interval is running,
\* redirectTimeoutRef is non-null only while its timeout is pending or after
\* that timeout has fired (the ref is not reset when the callback runs), and
\* every timer is tracked by its ref.
C17_RefsTrackTimers ==
    /\ ~(intervals # {} /\ timeouts # {})
    /\ Cardinality(intervals) <= 1 /\ Cardinality(timeouts) <= 1
    /\ progressIntervalRef # NoTimer => \E t \in intervals : t.id = progressIntervalRef
    /\ redirectTimeoutRef # NoTimer =>
          \/ \E t \in timeouts : t.id = redirectTimeoutRef
          \/ (timeouts = {} /\ Len(onCompleteCalls) = 1)
    /\ \A t \in intervals : t.id = progressIntervalRef
    /\ \A t \in timeouts : t.id = redirectTimeoutRef

\* C17 witness: the redirect timeout has fired and its ref still holds the id.
C17_Witness ==
    /\ mounted
    /\ redirectTimeoutRef # NoTimer
    /\ timeouts = {}
    /\ intervals = {}
    /\ Len(onCompleteCalls) = 1

\* C18: whenever a file is stored (the status view is rendered), the check
\* glyph is shown exactly when the status line reads "Redirecting...".
C18_IndicatorsAgree ==
    (mounted /\ file # NoFile) =>
        (StatusIcon = "check" <=> StatusText = "Redirecting...")
====
